---- MODULE Spec2Model ----
(***************************************************************************)
(* scripts/fix_css_colors.py: literal find-and-replace over three          *)
(* stylesheets followed by a read-only scan for residual colour literals.  *)
(*                                                                         *)
(* A text is a sequence of fragments (strings); joining the fragments      *)
(* gives the characters of the file.  Every literal of the script is the   *)
(* join of its fragments, so str.replace and re.sub are modelled fragment  *)
(* by fragment exactly as they work character by character.                *)
(***************************************************************************)
EXTENDS Integers, Sequences, FiniteSets, TLC

(* ------------------------------------------------------------------ *)
(* str.replace                                                        *)
(* ------------------------------------------------------------------ *)

\* True iff old occurs in s at position i.
MatchAt(s, old, i) ==
  /\ i >= 1
  /\ i + Len(old) - 1 <= Len(s)
  /\ \A k \in 1..Len(old) : s[i + k - 1] = old[k]

\* Positions >= from where old occurs in s.
Occurrences(s, old, from) ==
  {i \in from..(Len(s) - Len(old) + 1) : s[i] = old[1] /\ MatchAt(s, old, i)}

\* "old in s"
Contains(s, old) ==
  Occurrences(s, old, 1) # {}

\* Index of the leftmost occurrence of old in s at or after from, 0 if none.
Find(s, old, from) ==
  LET occ == Occurrences(s, old, from)
  IN  IF occ = {} THEN 0 ELSE CHOOSE i \in occ : \A j \in occ : i <= j

RECURSIVE ReplaceFrom(_, _, _, _)
ReplaceFrom(s, old, new, from) ==
  LET i == Find(s, old, from)
  IN  IF i = 0 THEN SubSeq(s, from, Len(s))
      ELSE SubSeq(s, from, i - 1) \o new \o ReplaceFrom(s, old, new, i + Len(old))

\* content.replace(old, new, 1): the leftmost occurrence only.
ReplaceOnce(s, old, new) ==
  LET i == Find(s, old, 1)
  IN  IF i = 0 THEN s
      ELSE SubSeq(s, 1, i - 1) \o new \o SubSeq(s, i + Len(old), Len(s))

\* content.replace(old, new): every non-overlapping occurrence, left to right.
Replace(s, old, new) ==
  ReplaceFrom(s, old, new, 1)

\* The statements as an if/elif chain: the first rule that matches is the
\* only one applied.
RECURSIVE ApplyFromFirstHit(_, _, _)
ApplyFromFirstHit(rules, s, k) ==
  IF k > Len(rules) THEN s
  ELSE LET t == Replace(s, rules[k].src, rules[k].dst)
       IN  IF t = s THEN ApplyFromFirstHit(rules, s, k + 1) ELSE t

\* The content.replace statements of one function, in program order, from
\* statement k on.  (t is computed once per statement; an unchanged text is
\* passed on as it is.)
RECURSIVE ApplyFrom(_, _, _)
ApplyFrom(rules, s, k) ==
  IF k > Len(rules) THEN s
  ELSE LET t == Replace(s, rules[k].src, rules[k].dst)
       IN  IF t = s THEN ApplyFrom(rules, s, k + 1)
           ELSE ApplyFrom(rules, t, k + 1)

ApplyRules(rules, s) ==
  ApplyFrom(rules, s, 1)

(* ------------------------------------------------------------------ *)
(* The substitution tables                                            *)
(* ------------------------------------------------------------------ *)

ViewsRules ==
  <<
    (* line 13 *)
    [src |-> <<"linear-gradient(", "135deg, ", "#0d1117", " 0%, ", "#161b22", " 50%, ", "#0d1117", " 100%)">>,
     dst |-> <<"linear-gradient(", "135deg, ", "var(--bg-deep)", " 0%, ", "var(--bg-primary)", " 50%, ", "var(--bg-deep)", " 100%)">>],
    (* line 19 *)
    [src |-> <<"linear-gradient(", "180deg, ", "var(--bg-primary)", " 0%, ", "#12131a", " 100%)">>,
     dst |-> <<"linear-gradient(", "180deg, ", "var(--bg-primary)", " 0%, ", "var(--bg-deep)", " 100%)">>],
    (* line 25 *)
    [src |-> <<"linear-gradient(", "180deg, ", "rgba(36, 40, 59", ", 0.95)", " 0%, ", "rgba(26, 27, 38", ", 0.98)", " 100%)">>,
     dst |-> <<"linear-gradient(", "180deg, ", "var(--surface-primary)", " 0%, ", "var(--surface-secondary)", " 100%)">>],
    (* line 31 *)
    [src |-> <<"linear-gradient(", "180deg, ", "rgba(36, 40, 59", ", 0.8)", " 0%, ", "rgba(26, 27, 38", ", 0.9)", " 100%)">>,
     dst |-> <<"linear-gradient(", "180deg, ", "var(--surface-primary)", " 0%, ", "var(--surface-secondary)", " 100%)">>],
    (* line 37 *)
    [src |-> <<"linear-gradient(", "90deg, ", "rgba(36, 40, 59", ", 0.8)", " 0%, ", "rgba(26, 27, 38", ", 0.9)", " 100%)">>,
     dst |-> <<"linear-gradient(", "90deg, ", "var(--surface-primary)", " 0%, ", "var(--surface-secondary)", " 100%)">>],
    (* line 43 *)
    [src |-> <<"linear-gradient(", "90deg, ", "rgba(36, 40, 59", ", 0.6)", " 0%, ", "rgba(26, 27, 38", ", 0.8)", " 100%)">>,
     dst |-> <<"linear-gradient(", "90deg, ", "var(--surface-primary)", " 0%, ", "var(--surface-secondary)", " 100%)">>],
    (* line 49 *)
    [src |-> <<"linear-gradient(", "180deg, ", "rgba(36, 40, 59", ", 0.5)", " 0%, ", "rgba(26, 27, 38", ", 0.8)", " 100%)">>,
     dst |-> <<"linear-gradient(", "180deg, ", "var(--surface-primary)", " 0%, ", "var(--surface-secondary)", " 100%)">>],
    (* line 55 *)
    [src |-> <<"linear-gradient(", "135deg, ", "rgba(36, 40, 59", ", 0.95)", " 0%, ", "rgba(26, 27, 38", ", 0.98)", " 100%)">>,
     dst |-> <<"linear-gradient(", "135deg, ", "var(--surface-primary)", " 0%, ", "var(--surface-secondary)", " 100%)">>],
    (* line 61 *)
    [src |-> <<"linear-gradient(", "180deg, ", "rgba(26, 27, 38", ", 0.5)", " 0%, ", "rgba(18, 19, 26", ", 0.8)", " 100%)">>,
     dst |-> <<"linear-gradient(", "180deg, ", "var(--surface-secondary)", " 0%, ", "var(--bg-deep)", " 100%)">>],
    (* line 67 *)
    [src |-> <<"linear-gradient(", "180deg, ", "rgba(65, 72, 104", ", 0.6)", " 0%, ", "rgba(36, 40, 59", ", 0.8)", " 100%)">>,
     dst |-> <<"linear-gradient(", "180deg, ", "var(--surface-tertiary)", " 0%, ", "var(--surface-primary)", " 100%)">>],
    (* line 73 *)
    [src |-> <<"linear-gradient(", "180deg, ", "rgba(122, 162, 247", ", 0.2)", " 0%, ", "rgba(36, 40, 59", ", 0.9)", " 100%)">>,
     dst |-> <<"linear-gradient(", "180deg, ", "rgba(122, 162, 247", ", 0.2)", " 0%, ", "var(--surface-primary)", " 100%)">>],
    (* line 79 *)
    [src |-> <<"linear-gradient(", "180deg, ", "transparent", " 0%, ", "rgba(0, 0, 0", ", 0.1)", " 100%)">>,
     dst |-> <<"linear-gradient(", "180deg, ", "transparent", " 0%, ", "var(--surface-code)", " 100%)">>],
    (* line 87 *)
    [src |-> <<"background: ", "rgba(22, 27, 34", ", 0.9)", ";">>,
     dst |-> <<"background: ", "var(--surface-primary)", ";">>],
    (* line 93 *)
    [src |-> <<"background: ", "rgba(13, 17, 23", ", 0.8)", ";">>,
     dst |-> <<"background: ", "var(--surface-input)", ";">>],
    (* line 97 *)
    [src |-> <<"background: ", "rgba(13, 17, 23", ", 1)", ";">>,
     dst |-> <<"background: ", "var(--surface-input-solid)", ";">>],
    (* line 101 *)
    [src |-> <<"background: ", "rgba(13, 17, 23", ", 0.5)", ";">>,
     dst |-> <<"background: ", "var(--surface-input)", ";">>],
    (* line 105 *)
    [src |-> <<"background: ", "rgba(13, 17, 23", ", 0.6)", ";">>,
     dst |-> <<"background: ", "var(--surface-input)", ";">>],
    (* line 111 *)
    [src |-> <<"background: ", "rgba(26, 27, 38", ", 0.8)", ";">>,
     dst |-> <<"background: ", "var(--surface-input)", ";">>],
    (* line 115 *)
    [src |-> <<"background: ", "rgba(26, 27, 38", ", 1)", ";">>,
     dst |-> <<"background: ", "var(--surface-input-solid)", ";">>],
    (* line 119 *)
    [src |-> <<"background: ", "rgba(26, 27, 38", ", 0.9)", ";">>,
     dst |-> <<"background: ", "var(--surface-secondary)", ";">>],
    (* line 123 *)
    [src |-> <<"background: ", "rgba(26, 27, 38", ", 0.6)", ";">>,
     dst |-> <<"background: ", "var(--surface-tertiary)", ";">>],
    (* line 127 *)
    [src |-> <<"background: ", "rgba(26, 27, 38", ", 0.5)", ";">>,
     dst |-> <<"background: ", "var(--surface-tertiary)", ";">>],
    (* line 133 *)
    [src |-> <<"background: ", "rgba(65, 72, 104", ", 0.6)", ";">>,
     dst |-> <<"background: ", "var(--surface-tertiary)", ";">>],
    (* line 137 *)
    [src |-> <<"background: ", "rgba(65, 72, 104", ", 0.8)", ";">>,
     dst |-> <<"background: ", "var(--surface-elevated)", ";">>],
    (* line 141 *)
    [src |-> <<"background: ", "rgba(65, 72, 104", ", 0.5)", ";">>,
     dst |-> <<"background: ", "var(--bg-hover)", ";">>],
    (* line 147 *)
    [src |-> <<"background: ", "rgba(36, 40, 59", ", 0.4)", ";">>,
     dst |-> <<"background: ", "var(--surface-tertiary)", ";">>],
    (* line 151 *)
    [src |-> <<"background: ", "rgba(36, 40, 59", ", 0.3)", ";">>,
     dst |-> <<"background: ", "var(--surface-tertiary)", ";">>],
    (* line 157 *)
    [src |-> <<"background: ", "#1a1b26", ";">>,
     dst |-> <<"background: ", "var(--bg-primary)", ";">>],
    (* line 161 *)
    [src |-> <<"background: ", "#0d1117", ";">>,
     dst |-> <<"background: ", "var(--bg-deep)", ";">>],
    (* line 167 *)
    [src |-> <<"background: ", "rgba(0, 0, 0", ", 0.3)", ";">>,
     dst |-> <<"background: ", "var(--surface-code)", ";">>],
    (* line 173 *)
    [src |-> <<"background: ", "rgba(26, 27, 38", ", 0.5)", ";">>,
     dst |-> <<"background: ", "var(--bg-primary)", ";">>],
    (* line 181 *)
    [src |-> <<"border-bottom: 1px solid ", "rgba(65, 72, 104", ", 0.3)", ";">>,
     dst |-> <<"border-bottom: 1px solid ", "var(--border-color)", ";">>],
    (* line 185 *)
    [src |-> <<"border-right: 1px solid ", "rgba(65, 72, 104", ", 0.4)", ";">>,
     dst |-> <<"border-right: 1px solid ", "var(--border-color)", ";">>],
    (* line 193 *)
    [src |-> <<"color: ", "#1a1b26", ";">>,
     dst |-> <<"color: ", "var(--text-on-accent)", ";">>],
    (* line 199 *)
    [src |-> <<"border-bottom: 1px solid ", "rgba(255, 255, 255", ", 0.05)", ";">>,
     dst |-> <<"border-bottom: 1px solid ", "var(--border-color)", ";">>]
  >>

LayoutRules ==
  <<
    (* line 239 *)
    [src |-> <<"linear-gradient(", "180deg, ", "var(--bg-primary)", " 0%, ", "#12131a", " 100%)">>,
     dst |-> <<"linear-gradient(", "180deg, ", "var(--bg-primary)", " 0%, ", "var(--bg-deep)", " 100%)">>],
    (* line 245 *)
    [src |-> <<"linear-gradient(", "135deg, ", "rgba(36, 40, 59", ", 0.95)", " 0%, ", "rgba(26, 27, 38", ", 0.98)", " 100%)">>,
     dst |-> <<"linear-gradient(", "135deg, ", "var(--surface-primary)", " 0%, ", "var(--surface-secondary)", " 100%)">>],
    (* line 251 *)
    [src |-> <<"linear-gradient(", "180deg, ", "rgba(36, 40, 59", ", 0.8)", " 0%, ", "rgba(26, 27, 38", ", 0.9)", " 100%)">>,
     dst |-> <<"linear-gradient(", "180deg, ", "var(--surface-primary)", " 0%, ", "var(--surface-secondary)", " 100%)">>],
    (* line 257 *)
    [src |-> <<"background: ", "rgba(65, 72, 104", ", 0.5)", ";">>,
     dst |-> <<"background: ", "var(--bg-hover)", ";">>],
    (* line 263 *)
    [src |-> <<"background: ", "rgba(65, 72, 104", ", 0.8)", ";">>,
     dst |-> <<"background: ", "var(--surface-elevated)", ";">>],
    (* line 269 *)
    [src |-> <<"linear-gradient(", "180deg, ", "rgba(26, 27, 38", ", 0.5)", " 0%, ", "rgba(18, 19, 26", ", 0.8)", " 100%)">>,
     dst |-> <<"linear-gradient(", "180deg, ", "var(--surface-secondary)", " 0%, ", "var(--bg-deep)", " 100%)">>],
    (* line 275 *)
    [src |-> <<"linear-gradient(", "180deg, ", "rgba(36, 40, 59", ", 0.95)", " 0%, ", "rgba(26, 27, 38", ", 0.98)", " 100%)">>,
     dst |-> <<"linear-gradient(", "180deg, ", "var(--surface-primary)", " 0%, ", "var(--surface-secondary)", " 100%)">>],
    (* line 281 *)
    [src |-> <<"linear-gradient(", "90deg, ", "rgba(36, 40, 59", ", 0.8)", " 0%, ", "rgba(26, 27, 38", ", 0.9)", " 100%)">>,
     dst |-> <<"linear-gradient(", "90deg, ", "var(--surface-primary)", " 0%, ", "var(--surface-secondary)", " 100%)">>],
    (* line 287 *)
    [src |-> <<"linear-gradient(", "180deg, ", "rgba(36, 40, 59", ", 0.5)", " 0%, ", "rgba(26, 27, 38", ", 0.8)", " 100%)">>,
     dst |-> <<"linear-gradient(", "180deg, ", "var(--surface-primary)", " 0%, ", "var(--surface-secondary)", " 100%)">>],
    (* line 293 *)
    [src |-> <<"background: ", "rgba(26, 27, 38", ", 0.8)", ";">>,
     dst |-> <<"background: ", "var(--surface-input)", ";">>],
    (* line 297 *)
    [src |-> <<"background: ", "rgba(26, 27, 38", ", 1)", ";">>,
     dst |-> <<"background: ", "var(--surface-input-solid)", ";">>],
    (* line 303 *)
    [src |-> <<"background: ", "rgba(65, 72, 104", ", 0.6)", ";">>,
     dst |-> <<"background: ", "var(--surface-tertiary)", ";">>],
    (* line 309 *)
    [src |-> <<"background: ", "rgba(26, 27, 38", ", 0.8)", ";">>,
     dst |-> <<"background: ", "var(--surface-input)", ";">>],
    (* line 315 *)
    [src |-> <<"background: ", "rgba(26, 27, 38", ", 0.6)", ";">>,
     dst |-> <<"background: ", "var(--surface-tertiary)", ";">>],
    (* line 321 *)
    [src |-> <<"background: ", "rgba(26, 27, 38", ", 0.5)", ";">>,
     dst |-> <<"background: ", "var(--bg-primary)", ";">>],
    (* line 327 *)
    [src |-> <<"background: ", "rgba(36, 40, 59", ", 0.4)", ";">>,
     dst |-> <<"background: ", "var(--surface-tertiary)", ";">>],
    (* line 333 *)
    [src |-> <<"linear-gradient(", "180deg, ", "rgba(65, 72, 104", ", 0.6)", " 0%, ", "rgba(36, 40, 59", ", 0.8)", " 100%)">>,
     dst |-> <<"linear-gradient(", "180deg, ", "var(--surface-tertiary)", " 0%, ", "var(--surface-primary)", " 100%)">>],
    (* line 337 *)
    [src |-> <<"linear-gradient(", "180deg, ", "rgba(122, 162, 247", ", 0.2)", " 0%, ", "rgba(36, 40, 59", ", 0.9)", " 100%)">>,
     dst |-> <<"linear-gradient(", "180deg, ", "rgba(122, 162, 247", ", 0.2)", " 0%, ", "var(--surface-primary)", " 100%)">>],
    (* line 343 *)
    [src |-> <<"border-bottom: 1px solid ", "rgba(65, 72, 104", ", 0.3)", ";">>,
     dst |-> <<"border-bottom: 1px solid ", "var(--border-color)", ";">>],
    (* line 349 *)
    [src |-> <<"background: ", "rgba(65, 72, 104", ", 0.5)", ";">>,
     dst |-> <<"background: ", "var(--bg-hover)", ";">>],
    (* line 355 *)
    [src |-> <<"background: ", "rgba(26, 27, 38", ", 0.8)", ";">>,
     dst |-> <<"background: ", "var(--surface-input)", ";">>],
    (* line 361 *)
    [src |-> <<"linear-gradient(", "90deg, ", "rgba(36, 40, 59", ", 0.6)", " 0%, ", "rgba(26, 27, 38", ", 0.8)", " 100%)">>,
     dst |-> <<"linear-gradient(", "90deg, ", "var(--surface-primary)", " 0%, ", "var(--surface-secondary)", " 100%)">>],
    (* line 367 *)
    [src |-> <<"linear-gradient(", "180deg, ", "rgba(36, 40, 59", ", 0.95)", " 0%, ", "rgba(26, 27, 38", ", 0.98)", " 100%)">>,
     dst |-> <<"linear-gradient(", "180deg, ", "var(--surface-primary)", " 0%, ", "var(--surface-secondary)", " 100%)">>]
  >>

ComponentsRules ==
  <<
    (* line 389 *)
    [src |-> <<"background: ", "rgba(26, 27, 38", ", 0.5)", ";">>,
     dst |-> <<"background: ", "var(--bg-primary)", ";">>],
    (* line 395 *)
    [src |-> <<"background: ", "rgba(36, 40, 59", ", 0.4)", ";">>,
     dst |-> <<"background: ", "var(--surface-tertiary)", ";">>],
    (* line 401 *)
    [src |-> <<"linear-gradient(", "180deg, ", "rgba(65, 72, 104", ", 0.6)", " 0%, ", "rgba(36, 40, 59", ", 0.8)", " 100%)">>,
     dst |-> <<"linear-gradient(", "180deg, ", "var(--surface-tertiary)", " 0%, ", "var(--surface-primary)", " 100%)">>],
    (* line 407 *)
    [src |-> <<"linear-gradient(", "180deg, ", "rgba(122, 162, 247", ", 0.2)", " 0%, ", "rgba(36, 40, 59", ", 0.9)", " 100%)">>,
     dst |-> <<"linear-gradient(", "180deg, ", "rgba(122, 162, 247", ", 0.2)", " 0%, ", "var(--surface-primary)", " 100%)">>],
    (* line 413 *)
    [src |-> <<"border-bottom: 1px solid ", "rgba(65, 72, 104", ", 0.3)", ";">>,
     dst |-> <<"border-bottom: 1px solid ", "var(--border-color)", ";">>],
    (* line 419 *)
    [src |-> <<"linear-gradient(", "90deg, ", "rgba(36, 40, 59", ", 0.8)", " 0%, ", "rgba(26, 27, 38", ", 0.9)", " 100%)">>,
     dst |-> <<"linear-gradient(", "90deg, ", "var(--surface-primary)", " 0%, ", "var(--surface-secondary)", " 100%)">>],
    (* line 423 *)
    [src |-> <<"background: ", "rgba(65, 72, 104", ", 0.5)", ";">>,
     dst |-> <<"background: ", "var(--bg-hover)", ";">>],
    (* line 429 *)
    [src |-> <<"background: ", "rgba(26, 27, 38", ", 0.8)", ";">>,
     dst |-> <<"background: ", "var(--surface-input)", ";">>],
    (* line 435 *)
    [src |-> <<"linear-gradient(", "90deg, ", "rgba(36, 40, 59", ", 0.6)", " 0%, ", "rgba(26, 27, 38", ", 0.8)", " 100%)">>,
     dst |-> <<"linear-gradient(", "90deg, ", "var(--surface-primary)", " 0%, ", "var(--surface-secondary)", " 100%)">>],
    (* line 441 *)
    [src |-> <<"linear-gradient(", "180deg, ", "rgba(36, 40, 59", ", 0.95)", " 0%, ", "rgba(26, 27, 38", ", 0.98)", " 100%)">>,
     dst |-> <<"linear-gradient(", "180deg, ", "var(--surface-primary)", " 0%, ", "var(--surface-secondary)", " 100%)">>],
    (* line 447 *)
    [src |-> <<"background: ", "rgba(26, 27, 38", ", 0.8)", ";">>,
     dst |-> <<"background: ", "var(--surface-input)", ";">>],
    (* line 451 *)
    [src |-> <<"background: ", "rgba(26, 27, 38", ", 1)", ";">>,
     dst |-> <<"background: ", "var(--surface-input-solid)", ";">>],
    (* line 457 *)
    [src |-> <<"background: ", "rgba(26, 27, 38", ", 0.8)", ";">>,
     dst |-> <<"background: ", "var(--surface-input)", ";">>],
    (* line 463 *)
    [src |-> <<"background: ", "rgba(65, 72, 104", ", 0.6)", ";">>,
     dst |-> <<"background: ", "var(--surface-tertiary)", ";">>],
    (* line 469 *)
    [src |-> <<"color: ", "#1a1b26", ";">>,
     dst |-> <<"color: ", "var(--text-on-accent)", ";">>]
  >>

(* ------------------------------------------------------------------ *)
(* re.sub                                                             *)
(* ------------------------------------------------------------------ *)

\* \s
Ws ==
  {" ", "\n"}

Lit(t) ==
  [k |-> "lit", t |-> t]

\* =+
Plus(t) ==
  [k |-> "plus", t |-> t]

\* \s*\n and \s*\n\s* : a run of white space holding a line feed.  Where the
\* pattern goes on with .* the white space left after the last line feed is
\* matched by the .* instead, which gives the same span.
WsNl ==
  [k |-> "wsnl", t |-> "\n"]

\* [^}]*\}
UpTo(t) ==
  [k |-> "upto", t |-> t]

\* First position >= i of s holding a fragment outside set; Len(s)+1 if none.
RunEnd(s, i, set) ==
  LET stop == {j \in i..Len(s) : s[j] \notin set}
  IN  IF stop = {} THEN Len(s) + 1 ELSE CHOOSE j \in stop : \A m \in stop : j <= m

\* First position >= i of s holding t; 0 if none.
IndexOf(s, i, t) ==
  LET hit == {j \in i..Len(s) : s[j] = t}
  IN  IF hit = {} THEN 0 ELSE CHOOSE j \in hit : \A m \in hit : j <= m

\* Matches pat[k..] at position i of s: the position after the match, 0 when
\* there is none.  Every repetition is followed by an element that cannot
\* start inside it, so the greedy choice is the only one.
RECURSIVE MatchPat(_, _, _, _)
MatchPat(s, i, pat, k) ==
  IF k > Len(pat) THEN i
  ELSE LET e == pat[k]
       IN  CASE e.k = "lit" ->
                  IF i <= Len(s) /\ s[i] = e.t
                  THEN MatchPat(s, i + 1, pat, k + 1) ELSE 0
             [] e.k = "plus" ->
                  LET j == RunEnd(s, i, {e.t})
                  IN  IF j > i THEN MatchPat(s, j, pat, k + 1) ELSE 0
             [] e.k = "wsnl" ->
                  LET j == RunEnd(s, i, Ws)
                  IN  IF \E p \in i..(j - 1) : s[p] = "\n"
                      THEN MatchPat(s, j, pat, k + 1) ELSE 0
             [] e.k = "upto" ->
                  LET j == IndexOf(s, i, e.t)
                  IN  IF j # 0 THEN MatchPat(s, j + 1, pat, k + 1) ELSE 0

\* .* in place of .*? : the tail is matched at its last position.
MatchEndGreedy(s, i, re) ==
  LET h == MatchPat(s, i, re.head, 1)
  IN  IF h = 0 THEN 0
      ELSE CASE re.rest = "none" -> h
             [] re.rest = "toend" -> Len(s) + 1
             [] re.rest = "lazy" ->
                  LET p == {j \in h..Len(s) : MatchPat(s, j, re.tail, 1) # 0}
                  IN  IF p = {} THEN 0
                      ELSE MatchPat(s, CHOOSE j \in p : \A m \in p : j >= m, re.tail, 1)

\* A compiled pattern: head, then nothing ("none"), or .*? and tail ("lazy"),
\* or .*$ ("toend"); re.DOTALL, so . matches every fragment.
\* The position after the match that starts at i, 0 when there is none.
MatchEnd(s, i, re) ==
  LET h == MatchPat(s, i, re.head, 1)
  IN  IF h = 0 THEN 0
      ELSE CASE re.rest = "none" -> h
             [] re.rest = "toend" -> Len(s) + 1
             [] re.rest = "lazy" ->
                  LET p == {j \in h..Len(s) : MatchPat(s, j, re.tail, 1) # 0}
                  IN  IF p = {} THEN 0
                      ELSE MatchPat(s, CHOOSE j \in p : \A m \in p : j <= m, re.tail, 1)

\* Start of the leftmost match at or after from; 0 if none.
Search(s, re, from) ==
  LET st == {i \in from..Len(s) : MatchEnd(s, i, re) # 0}
  IN  IF st = {} THEN 0 ELSE CHOOSE i \in st : \A m \in st : i <= m

\* re.sub(pattern, repl, s) with count=0: every non-overlapping match, left
\* to right, the search going on where the last match ended.
RECURSIVE SubFrom(_, _, _, _)
SubFrom(s, re, repl, from) ==
  LET i == Search(s, re, from)
  IN  IF i = 0 THEN SubSeq(s, from, Len(s))
      ELSE SubSeq(s, from, i - 1) \o repl \o SubFrom(s, re, repl, MatchEnd(s, i, re))

\* re.sub(pattern, repl, s, count=1): the leftmost match only.
ReSubOnce(re, repl, s) ==
  LET i == Search(s, re, 1)
  IN  IF i = 0 THEN s
      ELSE SubSeq(s, 1, i - 1) \o repl \o SubSeq(s, MatchEnd(s, i, re), Len(s))

ReSub(re, repl, s) ==
  SubFrom(s, re, repl, 1)

(* ------------------------------------------------------------------ *)
(* The patterns and placeholders                                      *)
(* ------------------------------------------------------------------ *)

\* /\* =+\s*\n\s*\* Light Theme Overrides\s*\n\s*\* <second line>\s*\n\s*\* =+ \*/\s*\n
HeaderPattern(secondLine) ==
  << Lit("/"), Lit("*"), Lit(" "), Plus("="), WsNl,
     Lit("*"), Lit(" "), Lit("Light Theme Overrides"), WsNl,
     Lit("*"), Lit(" "), Lit(secondLine), WsNl,
     Lit("*"), Lit(" "), Plus("="), Lit(" "), Lit("*"), Lit("/"), WsNl >>

CommandBarOpen ==
  "[data-theme=\"light\"] .command-bar {"

ViewsLightPattern ==
  [head |-> HeaderPattern("Override hardcoded dark colors for light mode"),
   rest |-> "lazy",
   tail |-> << Lit(CommandBarOpen), UpTo("}") >>]

MediaOpen ==
  "@media (prefers-color-scheme: light) {"

LoginContainerOpen ==
  ":root:not([data-theme]) .login-container {"

LoginBoxOpen ==
  ":root:not([data-theme]) .login-box {"

SidebarOpen ==
  ":root:not([data-theme]) .sidebar {"

ViewsMediaPattern ==
  [head |-> << Lit(MediaOpen), WsNl,
               Lit(LoginContainerOpen), UpTo("}"), WsNl,
               Lit(LoginBoxOpen), UpTo("}"), WsNl,
               Lit(SidebarOpen), UpTo("}"), WsNl,
               Lit("}") >>,
   rest |-> "none",
   tail |-> << >>]

LayoutLightPattern ==
  [head |-> HeaderPattern("Override hardcoded dark backgrounds for light mode"),
   rest |-> "toend",
   tail |-> << >>]

\* '/* Light Theme Overrides removed - now using CSS variables */'
LightPlaceholder ==
  << "/", "*", " ", "Light Theme Overrides", " removed - now using CSS variables ", "*", "/" >>

\* '/* System light preference overrides removed - now using CSS variables */'
MediaPlaceholder ==
  << "/", "*", " ", "System light preference overrides removed - now using CSS variables ", "*", "/" >>

(* ------------------------------------------------------------------ *)
(* The three rewrite functions                                        *)
(* ------------------------------------------------------------------ *)

\* First re.sub of fix_views_css.
ViewsRemoveLight(content) ==
  ReSub(ViewsLightPattern, LightPlaceholder, content)

\* Second re.sub of fix_views_css.
ViewsRemoveMedia(content) ==
  ReSub(ViewsMediaPattern, MediaPlaceholder, content)

\* The re.sub of fix_layout_css.
LayoutRemoveLight(content) ==
  ReSub(LayoutLightPattern, LightPlaceholder \o << "\n" >>, content)

fix_views_css(content) ==
  ViewsRemoveMedia(ViewsRemoveLight(ApplyRules(ViewsRules, content)))

fix_layout_css(content) ==
  LayoutRemoveLight(ApplyRules(LayoutRules, content))

fix_components_css(content) ==
  ApplyRules(ComponentsRules, content)

\* files of main(), in dict (insertion) order: views.css, layout.css,
\* components.css.
FileIds ==
  1..3

\* The tables with the replacement of the components.css rule of line 463
\* mistyped as the source of the rule of line 429.
RulesTypo(f) ==
  CASE f = 1 -> ViewsRules
    [] f = 2 -> LayoutRules
    [] f = 3 -> [ComponentsRules EXCEPT ![14].dst =
                   << "background: ", "rgba(26, 27, 38", ", 0.8)", ";" >>]

Rules(f) ==
  CASE f = 1 -> ViewsRules [] f = 2 -> LayoutRules [] f = 3 -> ComponentsRules

\* files[filepath]
fix_func(f, content) ==
  CASE f = 1 -> fix_views_css(content)
    [] f = 2 -> fix_layout_css(content)
    [] f = 3 -> fix_components_css(content)

(* ------------------------------------------------------------------ *)
(* The residual scan                                                  *)
(* ------------------------------------------------------------------ *)

dark_patterns ==
  << <<"#0d1117">>, <<"#161b22">>, <<"#12131a">>,
     <<"rgba(13, 17, 23">>,
     <<"rgba(22, 27, 34">>,
     <<"rgba(26, 27, 38">>,
     <<"rgba(36, 40, 59">>,
     <<"rgba(65, 72, 104">>,
     <<"rgba(18, 19, 26">> >>

\* content.split('\n')
RECURSIVE Split(_)
Split(s) ==
  LET i == IndexOf(s, 1, "\n")
  IN  IF i = 0 THEN << s >>
      ELSE << SubSeq(s, 1, i - 1) >> \o Split(SubSeq(s, i + 1, Len(s)))

\* [i+1 for i, line in enumerate(content.split('\n')) if pattern in line]
LineNumbers(content, pattern) ==
  LET ls == Split(content)
      Hit(i) == Contains(ls[i], pattern)
  IN  SelectSeq([i \in 1..Len(ls) |-> i], Hit)

\* The REMAINING lines printed for one file.
ScanLines(f, content) ==
  LET Found(k) == LineNumbers(content, dark_patterns[k]) # << >>
      ks == SelectSeq([k \in 1..Len(dark_patterns) |-> k], Found)
  IN  [j \in 1..Len(ks) |->
         [line |-> "REMAINING", file |-> f, pattern |-> dark_patterns[ks[j]],
          lines |-> LineNumbers(content, dark_patterns[ks[j]])]]

(* ------------------------------------------------------------------ *)
(* Bounded inputs                                                     *)
(* ------------------------------------------------------------------ *)

\* Times a piece is repeated in one input text of a rewrite function.
MaxRepeat ==
  2

\* Pieces joined into one initial file of a run of main().
MaxFilePieces ==
  1

\* Line of the declaration in end-to-end scenario A.
ScenarioLine ==
  10

RECURSIVE Concat(_)
Concat(ps) ==
  IF ps = << >> THEN << >> ELSE Head(ps) \o Concat(Tail(ps))

SeqsUpTo(S, n) ==
  UNION {[1..m -> S] : m \in 0..n}

HeaderText(secondLine) ==
  << "/", "*", " ", "=", "=", "\n",
     " ", "*", " ", "Light Theme Overrides", "\n",
     " ", "*", " ", secondLine, "\n",
     " ", "*", " ", "=", "=", " ", "*", "/", "\n" >>

ViewsHeaderText ==
  HeaderText("Override hardcoded dark colors for light mode")

LayoutHeaderText ==
  HeaderText("Override hardcoded dark backgrounds for light mode")

CommandBarBlock ==
  << CommandBarOpen, " ", "color: ", "#1a1b26", ";", " ", "}" >>

ViewsLightBlock ==
  ViewsHeaderText \o CommandBarBlock

MediaBlock ==
  << MediaOpen, "\n",
     " ", LoginContainerOpen, " ", "}", "\n",
     " ", LoginBoxOpen, "}", "\n",
     " ", SidebarOpen, "}", "\n",
     "}" >>

Sources(f) ==
  {Rules(f)[k].src : k \in 1..Len(Rules(f))}

\* Every source of the file's table, the blocks of the removal rules (whole,
\* without the leading slash, header alone, last selector alone) and a line
\* feed.
Pieces(f) ==
  Sources(f) \cup {<< "\n" >>} \cup
  CASE f = 1 -> {ViewsLightBlock, Tail(ViewsLightBlock), ViewsHeaderText,
                 CommandBarBlock, MediaBlock}
    [] f = 2 -> {LayoutHeaderText, ViewsLightBlock}
    [] f = 3 -> {}

\* piece, n times
Repeat(piece, n) ==
  Concat([i \in 1..n |-> piece])

\* Two pieces, each repeated up to MaxRepeat times.
Inputs(f) ==
  {Repeat(a, i) \o Repeat(b, j) : a \in Pieces(f), b \in Pieces(f),
                                  i \in 0..MaxRepeat, j \in 0..MaxRepeat}

(* ------------------------------------------------------------------ *)
(* Orders of a substitution table                                     *)
(* ------------------------------------------------------------------ *)

\* Index of the first rule of the table with the source of rule k.
FirstOf(rules, k) ==
  CHOOSE j \in 1..k : /\ rules[j].src = rules[k].src
                      /\ \A m \in 1..(j - 1) : rules[m].src # rules[k].src

\* Index of the last rule of the table with the source of rule k.
LastOf(rules, k) ==
  CHOOSE j \in k..Len(rules) : /\ rules[j].src = rules[k].src
                               /\ \A m \in (j + 1)..Len(rules) : rules[m].src # rules[k].src

Indices(rules) ==
  [k \in 1..Len(rules) |-> k]

\* The table with every rule deleted whose source an earlier rule has.
Dedup(rules) ==
  LET Keep(k) == FirstOf(rules, k) = k
      ks == SelectSeq(Indices(rules), Keep)
  IN  [j \in 1..Len(ks) |-> rules[ks[j]]]

\* Rule k first, the others in the coded order.
MoveFront(rules, k) ==
  LET Other(j) == j # k
  IN  << k >> \o SelectSeq(Indices(rules), Other)

\* Rule k last, the others in the coded order.
MoveBack(rules, k) ==
  LET Other(j) == j # k
  IN  SelectSeq(Indices(rules), Other) \o << k >>

\* The sources in the reverse of the coded order, the rules of one source
\* staying in their coded order.
RECURSIVE ReverseFrom(_, _)
ReverseFrom(rules, k) ==
  IF k = 0 THEN << >>
  ELSE LET Same(j) == rules[j].src = rules[k].src
       IN  (IF FirstOf(rules, k) = k THEN SelectSeq(Indices(rules), Same) ELSE << >>)
           \o ReverseFrom(rules, k - 1)

StableReverse(rules) ==
  ReverseFrom(rules, Len(rules))

\* Per table: the reversed order, the rules that are the first (last) of
\* their source, the table without repeated sources.
ReversedOrder ==
  [f \in FileIds |-> StableReverse(Rules(f))]

FirstRules ==
  [f \in FileIds |-> {k \in 1..Len(Rules(f)) : FirstOf(Rules(f), k) = k}]

LastRules ==
  [f \in FileIds |-> {k \in 1..Len(Rules(f)) : LastOf(Rules(f), k) = k}]

DedupRules ==
  [f \in FileIds |-> Dedup(Rules(f))]

\* Orders that keep the relative order of the rules sharing a source: the
\* reversed one, and each rule whose source occurs in s moved to the front
\* or to the back.
Orders(f, s) ==
  {ReversedOrder[f]}
  \cup {MoveFront(Rules(f), k) : k \in {j \in FirstRules[f] : Contains(s, Rules(f)[j].src)}}
  \cup {MoveBack(Rules(f), k) : k \in {j \in LastRules[f] : Contains(s, Rules(f)[j].src)}}

Permute(rules, order) ==
  [j \in 1..Len(order) |-> rules[order[j]]]

(* ------------------------------------------------------------------ *)
(* State                                                              *)
(* ------------------------------------------------------------------ *)

VARIABLES
  files,         \* text of each target file on disk
  disk0,         \* text of each target file when the run started
  afterRewrite,  \* text of each target file when the rewrite loop ended
  pc,            \* program point
  idx,           \* position in files (main), function under call (calls)
  original,      \* main: original; calls: the input text
  content,       \* content
  prev,          \* calls: content before the last statement group or call
  out,           \* lines printed
  ops            \* open() calls made: [op, file, ok]

vars ==
  << files, disk0, afterRewrite, pc, idx, original, content, prev, out, ops >>

Line(kind, f) ==
  [line |-> kind, file |-> f, pattern |-> << >>, lines |-> << >>]

Op(kind, f, ok) ==
  [op |-> kind, file |-> f, ok |-> ok]

(* ------------------------------------------------------------------ *)
(* main()                                                             *)
(* ------------------------------------------------------------------ *)

BgDecl ==
  << "background: ", "#1a1b26", ";" >>

\* Lines around the declaration of scenario A: empty, an already converted
\* declaration, a declaration no rule has.
FillerLines ==
  { << >>,
    << "background: ", "var(--bg-primary)", ";" >>,
    << "fill: ", "#1a1b26", ";" >> }

ScenarioText(filler) ==
  Concat([i \in 1..(ScenarioLine - 1) |-> filler \o << "\n" >>])
  \o << " ", " " >> \o BgDecl \o << "\n" >> \o filler

FilePieces ==
  { << "background: ", "rgba(26, 27, 38", ", 0.8)", ";", "\n" >>,
    << "color: ", "#0d1117", ";", "\n" >> }

FileTexts ==
  {ScenarioText(fl) : fl \in FillerLines}
  \cup {Concat(ps) : ps \in SeqsUpTo(FilePieces, MaxFilePieces)}

Init ==
  /\ files \in [FileIds -> FileTexts]
  /\ disk0 = files
  /\ afterRewrite = files
  /\ pc = "open_read"
  /\ idx = 1
  /\ original = << >>
  /\ content = << >>
  /\ prev = << >>
  /\ out = << >>
  /\ ops = << >>

\* End of one iteration of "for filepath, fix_func in files.items()".
NextFile ==
  IF idx < 3 THEN idx' = idx + 1 /\ pc' = "open_read"
  ELSE idx' = idx /\ pc' = "done"

\* print Processing; open(filepath, 'r'); read; fix_func.
ReadFile ==
  /\ pc = "open_read"
  /\ out' = Append(out, Line("Processing", idx))
  /\ ops' = Append(ops, Op("r", idx, TRUE))
  /\ original' = files[idx]
  /\ content' = fix_func(idx, files[idx])
  /\ pc' = "compare"
  /\ UNCHANGED << files, disk0, afterRewrite, idx, prev >>

\* open(filepath, 'r') raises and the loop goes on with the next file.
ReadFailsSkipped ==
  /\ pc = "open_read"
  /\ out' = Append(out, Line("Processing", idx))
  /\ ops' = Append(ops, Op("r", idx, FALSE))
  /\ NextFile
  /\ UNCHANGED << files, disk0, afterRewrite, original, content, prev >>

\* open(filepath, 'r') raises; nothing catches it.
ReadFails ==
  /\ pc = "open_read"
  /\ out' = Append(out, Line("Processing", idx))
  /\ ops' = Append(ops, Op("r", idx, FALSE))
  /\ pc' = "crashed"
  /\ UNCHANGED << files, disk0, afterRewrite, idx, original, content, prev >>

\* f.write(original) in place of f.write(content).
WriteFileOriginal ==
  /\ pc = "compare"
  /\ content # original
  /\ ops' = Append(ops, Op("w", idx, TRUE))
  /\ files' = [files EXCEPT ![idx] = original]
  /\ out' = Append(out, Line("Updated", idx))
  /\ NextFile
  /\ UNCHANGED << disk0, afterRewrite, original, content, prev >>

\* The write without the comparison of content and original.
WriteFileAlways ==
  /\ pc = "compare"
  /\ ops' = Append(ops, Op("w", idx, TRUE))
  /\ files' = [files EXCEPT ![idx] = content]
  /\ out' = Append(out, Line("Updated", idx))
  /\ NextFile
  /\ UNCHANGED << disk0, afterRewrite, original, content, prev >>

\* content != original: open(filepath, 'w'); write; print Updated.
WriteFile ==
  /\ pc = "compare"
  /\ content # original
  /\ ops' = Append(ops, Op("w", idx, TRUE))
  /\ files' = [files EXCEPT ![idx] = content]
  /\ out' = Append(out, Line("Updated", idx))
  /\ NextFile
  /\ UNCHANGED << disk0, afterRewrite, original, content, prev >>

\* content != original and open(filepath, 'w') raises.
WriteFails ==
  /\ pc = "compare"
  /\ content # original
  /\ ops' = Append(ops, Op("w", idx, FALSE))
  /\ pc' = "crashed"
  /\ UNCHANGED << files, disk0, afterRewrite, idx, original, content, prev, out >>

\* content == original: print No changes needed.
NoChange ==
  /\ pc = "compare"
  /\ content = original
  /\ out' = Append(out, Line("NoChanges", idx))
  /\ NextFile
  /\ UNCHANGED << files, disk0, afterRewrite, original, content, prev, ops >>

\* print "Done! Checking for remaining hardcoded dark colors..."
PrintDone ==
  /\ pc = "done"
  /\ out' = Append(out, Line("Done", 0))
  /\ afterRewrite' = files
  /\ idx' = 1
  /\ pc' = "scan"
  /\ UNCHANGED << files, disk0, original, content, prev, ops >>

\* The scan opening the file with 'w': the file is truncated.
ScanFileTruncates ==
  /\ pc = "scan"
  /\ ops' = Append(ops, Op("scan", idx, TRUE))
  /\ files' = [files EXCEPT ![idx] = << >>]
  /\ content' = << >>
  /\ out' = out
  /\ IF idx < 3 THEN idx' = idx + 1 /\ pc' = "scan"
     ELSE idx' = idx /\ pc' = "exit"
  /\ UNCHANGED << disk0, afterRewrite, original, prev >>

\* One iteration of "for filepath in files": open, read, print REMAINING.
ScanFile ==
  /\ pc = "scan"
  /\ ops' = Append(ops, Op("scan", idx, TRUE))
  /\ content' = files[idx]
  /\ out' = out \o ScanLines(idx, files[idx])
  /\ IF idx < 3 THEN idx' = idx + 1 /\ pc' = "scan"
     ELSE idx' = idx /\ pc' = "exit"
  /\ UNCHANGED << files, disk0, afterRewrite, original, prev >>

\* open(filepath, 'r') raises in the scan loop.
ScanFails ==
  /\ pc = "scan"
  /\ ops' = Append(ops, Op("scan", idx, FALSE))
  /\ pc' = "crashed"
  /\ UNCHANGED << files, disk0, afterRewrite, idx, original, content, prev, out >>

Next ==
  \/ ReadFile
  \/ ReadFails
  \/ WriteFile
  \/ WriteFails
  \/ NoChange
  \/ PrintDone
  \/ ScanFile
  \/ ScanFails

Spec ==
  Init /\ [][Next]_vars

(* ------------------------------------------------------------------ *)
(* Calls of the rewrite functions on bounded inputs                   *)
(* ------------------------------------------------------------------ *)

NoFiles ==
  [f \in FileIds |-> << >>]

FnInit ==
  /\ idx \in FileIds
  /\ original \in Inputs(idx)
  /\ content = original
  /\ prev = original
  /\ pc = "fn_in"
  /\ files = NoFiles
  /\ disk0 = NoFiles
  /\ afterRewrite = NoFiles
  /\ out = << >>
  /\ ops = << >>

FnFrame ==
  UNCHANGED << files, disk0, afterRewrite, idx, original, out, ops >>

\* The content.replace statements of the function.
FnSubstitute ==
  /\ pc = "fn_in"
  /\ prev' = content
  /\ content' = ApplyRules(Rules(idx), content)
  /\ pc' = "fn_subst"
  /\ FnFrame

\* The re.sub of the Light Theme Overrides section (views, layout).
FnRemoveLight ==
  /\ pc = "fn_subst"
  /\ idx \in {1, 2}
  /\ prev' = content
  /\ content' = IF idx = 1 THEN ViewsRemoveLight(content) ELSE LayoutRemoveLight(content)
  /\ pc' = "fn_light"
  /\ FnFrame

\* The re.sub of the prefers-color-scheme section (views).
FnRemoveMedia ==
  /\ pc = "fn_light"
  /\ idx = 1
  /\ prev' = content
  /\ content' = ViewsRemoveMedia(content)
  /\ pc' = "fn_media"
  /\ FnFrame

\* return content
FnReturn ==
  /\ \/ pc = "fn_media" /\ idx = 1
     \/ pc = "fn_light" /\ idx = 2
     \/ pc = "fn_subst" /\ idx = 3
  /\ pc' = "fn_once"
  /\ UNCHANGED << content, prev >>
  /\ FnFrame

\* The function called on its own output.
FnApplyAgain ==
  /\ pc = "fn_once"
  /\ prev' = content
  /\ content' = fix_func(idx, content)
  /\ pc' = "fn_twice"
  /\ FnFrame

\* The content.replace statements in another order.
FnReordered ==
  /\ pc = "fn_in"
  /\ \E order \in Orders(idx, original) :
       content' = ApplyRules(Permute(Rules(idx), order), original)
  /\ prev' = content
  /\ pc' = "fn_reordered"
  /\ FnFrame

\* The content.replace statements without the repeated sources.
FnDeduped ==
  /\ pc = "fn_in"
  /\ content' = ApplyRules(DedupRules[idx], original)
  /\ prev' = content
  /\ pc' = "fn_deduped"
  /\ FnFrame

FnNext ==
  \/ FnSubstitute
  \/ FnRemoveLight
  \/ FnRemoveMedia
  \/ FnReturn
  \/ FnApplyAgain
  \/ FnReordered
  \/ FnDeduped

FnSpec ==
  FnInit /\ [][FnNext]_vars

(* ------------------------------------------------------------------ *)
(* Properties of the rewrite functions (FnSpec)                       *)
(* ------------------------------------------------------------------ *)

\* s.count(old): non-overlapping occurrences of old in s.
RECURSIVE CountFrom(_, _, _)
CountFrom(s, old, from) ==
  LET i == Find(s, old, from)
  IN  IF i = 0 THEN 0 ELSE 1 + CountFrom(s, old, i + Len(old))

Count(s, old) ==
  CountFrom(s, old, 1)

\* True iff neither removal rule of the function found a match in the
\* substituted text of the first call.
NoRemovalMatched(f, input) ==
  LET mid == ApplyRules(Rules(f), input)
  IN  CASE f = 1 -> Search(mid, ViewsLightPattern, 1) = 0
                    /\ Search(mid, ViewsMediaPattern, 1) = 0
        [] f = 2 -> Search(mid, LayoutLightPattern, 1) = 0
        [] f = 3 -> TRUE

InputBackground ==
  << "background: ", "rgba(26, 27, 38", ", 0.8)", ";" >>

SurfaceInput ==
  << "background: ", "var(--surface-input)", ";" >>

\* C2: the text a rewrite function returns holds no occurrence of any
\* source of its table; two occurrences of
\* 'background: rgba(26, 27, 38, 0.8);' both become
\* 'background: var(--surface-input);' in one call.
C2_EverySourceReplaced ==
  pc = "fn_once" =>
    /\ \A k \in 1..Len(Rules(idx)) : ~Contains(content, Rules(idx)[k].src)
    /\ original = InputBackground \o InputBackground
         => content = SurfaceInput \o SurfaceInput

C2_Witness ==
  /\ pc = "fn_once"
  /\ original = InputBackground \o InputBackground
  /\ content = SurfaceInput \o SurfaceInput

\* Number of matches re.sub finds in s: leftmost first, the next one looked
\* for where the last one ended.
RECURSIVE NumMatchesFrom(_, _, _)
NumMatchesFrom(s, re, from) ==
  LET i == Search(s, re, from)
  IN  IF i = 0 THEN 0 ELSE 1 + NumMatchesFrom(s, re, MatchEnd(s, i, re))

NumMatches(s, re) ==
  NumMatchesFrom(s, re, 1)

\* The removal rule that has just run, and its placeholder.
RuleRun ==
  CASE pc = "fn_light" /\ idx = 1 -> ViewsLightPattern
    [] pc = "fn_light" /\ idx = 2 -> LayoutLightPattern
    [] pc = "fn_media" -> ViewsMediaPattern

PlaceholderRun ==
  IF pc = "fn_media" THEN MediaPlaceholder ELSE LightPlaceholder

\* C3 as stated: a removal rule replaces only the first match of its
\* pattern, so one call puts in at most one placeholder per removal rule.
C3_FirstMatchOnly ==
  pc \in {"fn_light", "fn_media"} =>
    Count(content, PlaceholderRun) <= Count(prev, PlaceholderRun) + 1

\* C3, amended: a removal rule replaces every non-overlapping match of its
\* pattern, leftmost first: a text without placeholders comes out with one
\* placeholder per match; in layout.css the match runs to the end of the
\* text, so there is at most one.
C3_EveryMatchReplaced ==
  (pc \in {"fn_light", "fn_media"} /\ Count(prev, PlaceholderRun) = 0) =>
    /\ Count(content, PlaceholderRun) = NumMatches(prev, RuleRun)
    /\ idx = 2 => Count(content, PlaceholderRun) <= 1

\* The views.css rule has run on a text with two Light Theme Overrides
\* blocks.
C3_Witness ==
  /\ pc = "fn_light"
  /\ idx = 1
  /\ Count(prev, ViewsHeaderText) = 2
  /\ NumMatches(prev, ViewsLightPattern) = 2
  /\ Count(content, LightPlaceholder) = 2

\* The Light Theme Overrides header of file f (1 views.css, 2 layout.css)
\* starts at position i of s: the position after it, 0 if it does not.
HeaderEnd(f, s, i) ==
  MatchPat(s, i, IF f = 1 THEN ViewsLightPattern.head ELSE LayoutLightPattern.head, 1)

\* Positions at or after from where a '[data-theme="light"] .command-bar {'
\* rule with a closing brace starts.
CommandBarRules(s, from) ==
  {p \in from..Len(s) : s[p] = CommandBarOpen /\ IndexOf(s, p + 1, "}") # 0}

\* Positions of s where a views.css header starts that a command-bar rule
\* follows.
SpanStarts(s) ==
  {i \in 1..Len(s) : HeaderEnd(1, s, i) # 0 /\ CommandBarRules(s, HeaderEnd(1, s, i)) # {}}

Least(S) ==
  CHOOSE i \in S : \A j \in S : i <= j

\* Position of the closing brace of the first command-bar rule after the
\* header that starts at i.
SpanLast(s, i) ==
  IndexOf(s, Least(CommandBarRules(s, HeaderEnd(1, s, i))) + 1, "}")

\* views.css: the first span replaced by the placeholder and every further
\* span of the text after it replaced the same way.
RECURSIVE SpansReplaced(_)
SpansReplaced(s) ==
  IF SpanStarts(s) = {} THEN s
  ELSE LET i == Least(SpanStarts(s))
       IN  SubSeq(s, 1, i - 1) \o LightPlaceholder
           \o SpansReplaced(SubSeq(s, SpanLast(s, i) + 1, Len(s)))

LayoutHeaders(s) ==
  {i \in 1..Len(s) : HeaderEnd(2, s, i) # 0}

\* The layout.css part and the no-match part of C4.
C4_LayoutAndAbsent ==
  /\ (idx = 2 /\ LayoutHeaders(prev) # {}) =>
       content = SubSeq(prev, 1, Least(LayoutHeaders(prev)) - 1)
                 \o LightPlaceholder \o << "\n" >>
  /\ (idx = 2 /\ LayoutHeaders(prev) = {}) => content = prev
  /\ (idx = 1 /\ SpanStarts(prev) = {}) => content = prev

\* C4 as stated: in views.css the span from the header through the closing
\* brace of the first command-bar rule after it is replaced by the
\* placeholder and the text before and after the span is kept; in
\* layout.css everything from the header to the end is replaced by the
\* placeholder line; without header (or last selector) the text is unchanged.
C4_SpanReplaced ==
  pc = "fn_light" =>
    /\ C4_LayoutAndAbsent
    /\ (idx = 1 /\ SpanStarts(prev) # {}) =>
         LET i == Least(SpanStarts(prev))
         IN  content = SubSeq(prev, 1, i - 1) \o LightPlaceholder
                       \o SubSeq(prev, SpanLast(prev, i) + 1, Len(prev))

\* C4, amended: as stated, except that in views.css the text after the span
\* is kept only up to further header-to-command-bar spans in it, each of
\* which is replaced by the placeholder in the same way.
C4_SpansReplaced ==
  pc = "fn_light" =>
    /\ C4_LayoutAndAbsent
    /\ (idx = 1 /\ SpanStarts(prev) # {}) =>
         /\ content = SpansReplaced(prev)
         /\ LET i == Least(SpanStarts(prev))
                rest == SubSeq(prev, SpanLast(prev, i) + 1, Len(prev))
            IN  SpanStarts(rest) = {} =>
                  content = SubSeq(prev, 1, i - 1) \o LightPlaceholder \o rest

\* The views.css rule has replaced the one span of a text in which a second
\* command-bar rule follows the span; that rule is kept.
C4_Witness ==
  /\ pc = "fn_light"
  /\ idx = 1
  /\ SpanStarts(prev) = {1}
  /\ SpanLast(prev, 1) < Len(prev)
  /\ content = LightPlaceholder \o SubSeq(prev, SpanLast(prev, 1) + 1, Len(prev))
  /\ content[Len(LightPlaceholder) + 1] = CommandBarOpen

\* No two rules of a table interfere: no replacement holds or overlaps the
\* source of a rule with another source, and no two distinct sources
\* overlap.
Overlap(a, b) ==
  \/ Contains(a, b)
  \/ \E n \in 1..(Len(b) - 1) :
       n < Len(a) /\ SubSeq(a, Len(a) - n + 1, Len(a)) = SubSeq(b, 1, n)

RulesIndependent ==
  \A f \in FileIds : \A j, k \in 1..Len(Rules(f)) :
    Rules(f)[j].src # Rules(f)[k].src =>
      /\ ~Overlap(Rules(f)[j].dst, Rules(f)[k].src)
      /\ ~Overlap(Rules(f)[k].src, Rules(f)[j].dst)
      /\ ~Overlap(Rules(f)[j].src, Rules(f)[k].src)

DuplicateRules ==
  [f \in FileIds |-> (1..Len(Rules(f))) \ FirstRules[f]]

ScrollbarSource ==
  << "background: ", "rgba(26, 27, 38", ", 0.5)", ";" >>

\* C10: a rule whose source equals the source of an earlier rule of the same
\* table never matches: when it runs the text holds no occurrence of its
\* source, and the table without it gives the same text; in views.css
\* 'background: rgba(26, 27, 38, 0.5);' becomes
\* 'background: var(--surface-tertiary);', not 'background: var(--bg-primary);'.
C10_DuplicatesDead ==
  /\ pc = "fn_deduped" => content = ApplyRules(Rules(idx), original)
  /\ pc = "fn_subst" =>
       /\ \A k \in DuplicateRules[idx] :
            ~Contains(ApplyRules(SubSeq(Rules(idx), 1, k - 1), original), Rules(idx)[k].src)
       /\ idx = 1 =>
            /\ Count(content, << "background: ", "var(--surface-tertiary)", ";" >>)
                 >= Count(original, ScrollbarSource)
            /\ Count(content, << "background: ", "var(--bg-primary)", ";" >>)
                 = Count(original, BgDecl)
                   + Count(original, << "background: ", "var(--bg-primary)", ";" >>)

\* views.css substitutions have run on a text with two occurrences of the
\* source that two rules share.
C10_Witness ==
  /\ pc = "fn_subst"
  /\ idx = 1
  /\ original = ScrollbarSource \o ScrollbarSource
  /\ Count(content, << "background: ", "var(--surface-tertiary)", ";" >>) = 2

(* ------------------------------------------------------------------ *)
(* Properties of a run of main() (Spec)                               *)
(* ------------------------------------------------------------------ *)

StatusLines(f) ==
  {i \in 1..Len(out) : out[i].file = f /\ out[i].line \in {"Updated", "NoChanges"}}

\* Scenario A for file f: the declaration is on line ScenarioLine of text
\* and, that line taken out, the text holds nothing a rule of f matches.
ScenarioA(f, text) ==
  LET ls == Split(text)
  IN  /\ Len(ls) >= ScenarioLine
      /\ Contains(ls[ScenarioLine], BgDecl)
      /\ LET others == Concat([i \in 1..Len(ls) |->
                                 IF i = ScenarioLine THEN << "\n" >> ELSE ls[i] \o << "\n" >>])
         IN  /\ ~Contains(others, BgDecl)
             /\ fix_func(f, others) = others

\* Line ScenarioLine of f now holds the converted declaration, no other line
\* has changed and f holds no '#1a1b26'.
Converted(f) ==
  LET old == Split(disk0[f])
      new == Split(files[f])
  IN  /\ Len(new) = Len(old)
      /\ Contains(new[ScenarioLine], << "background: ", "var(--bg-primary)", ";" >>)
      /\ \A i \in 1..Len(old) : i # ScenarioLine => new[i] = old[i]
      /\ ~Contains(files[f], << "#1a1b26" >>)

\* C5 as stated: for each target file, if its only rule-matching text is
\* 'background: #1a1b26;' on line 10, then after the run line 10 holds
\* 'background: var(--bg-primary);', no other line has changed and the file
\* holds no '#1a1b26'.
C5_ScenarioA ==
  pc = "exit" => \A f \in FileIds : ScenarioA(f, disk0[f]) => Converted(f)

\* C5, amended: that holds for views.css when '#1a1b26' occurs nowhere else
\* in the file; layout.css and components.css have no rule with this source
\* and are left as they were.
C5_ScenarioAViews ==
  pc = "exit" => \A f \in FileIds : ScenarioA(f, disk0[f]) =>
    /\ (f = 1 /\ Count(disk0[f], << "#1a1b26" >>) = 1) => Converted(f)
    /\ f \in {2, 3} => files[f] = disk0[f]

\* A finished run in which all three files started as scenario A texts.
C5_Witness ==
  /\ pc = "exit"
  /\ \A f \in FileIds : ScenarioA(f, disk0[f])
  /\ Converted(1)
  /\ files[2] = disk0[2]

\* The iteration of the rewrite loop for f is over.
Rewritten(f) ==
  /\ \E i \in 1..Len(ops) : ops[i] = Op("r", f, TRUE)
  /\ ~(pc = "compare" /\ idx = f)
  /\ \A i \in 1..Len(ops) : ops[i] # Op("w", f, FALSE)

\* C6: a file is opened for writing iff the rewritten text differs from the
\* text read; a file no rule matches stays as it was; every file gets one
\* status line, Updated when it was written and No changes needed when not.
C6_WriteOnlyOnChange ==
  \A f \in FileIds :
    LET differs == fix_func(f, disk0[f]) # disk0[f]
        opened == \E i \in 1..Len(ops) : ops[i].op = "w" /\ ops[i].file = f
        written == \E i \in 1..Len(ops) : ops[i] = Op("w", f, TRUE)
    IN  /\ opened => differs
        /\ (Rewritten(f) /\ differs) => written
        /\ ~differs => files[f] = disk0[f]
        /\ written => files[f] = fix_func(f, disk0[f])
        /\ Cardinality(StatusLines(f)) = (IF Rewritten(f) THEN 1 ELSE 0)
        /\ \A i \in StatusLines(f) : out[i].line = "Updated" <=> written

\* A finished run that wrote one file and left another one alone.
C6_Witness ==
  /\ pc = "exit"
  /\ \E f, g \in FileIds :
       /\ files[f] # disk0[f]
       /\ \E i \in StatusLines(f) : out[i].line = "Updated"
       /\ files[g] = disk0[g]
       /\ \E i \in StatusLines(g) : out[i].line = "NoChanges"

\* Place of an open() call in a run: read and write of views.css, of
\* layout.css, of components.css, then the three scan reads.
Rank(o) ==
  CASE o.op = "r" -> 2 * o.file - 1
    [] o.op = "w" -> 2 * o.file
    [] o.op = "scan" -> 6 + o.file

\* C7: the files are processed one at a time in the order views.css,
\* layout.css, components.css, read before write; the scan of any file
\* starts only after the rewrite of all three has finished; the scan writes
\* nothing, so the files end as the rewrite loop left them.
C7_PhaseOrder ==
  /\ \A i, j \in 1..Len(ops) : i < j => Rank(ops[i]) < Rank(ops[j])
  /\ (\E i \in 1..Len(ops) : ops[i].op = "scan") =>
       /\ \A f \in FileIds : Rewritten(f)
       /\ \E i \in 1..Len(out) : out[i].line = "Done"
       /\ files = afterRewrite
  /\ pc = "exit" => files = afterRewrite

\* A finished run that rewrote all three files and then scanned them.
C7_Witness ==
  /\ pc = "exit"
  /\ Len(ops) = 9
  /\ \A f \in FileIds : files[f] # disk0[f]

\* C8: when an open() of the rewrite loop fails the run ends there: no open
\* follows it, the scan never starts, and the files rewritten before keep
\* their new text while the others are as they were.
C8_StopOnError ==
  \A i \in 1..Len(ops) : ~ops[i].ok =>
    /\ i = Len(ops)
    /\ pc = "crashed"
    /\ ops[i].op \in {"r", "w"} =>
         /\ \A j \in 1..Len(out) : out[j].line \notin {"Done", "REMAINING"}
         /\ \A j \in 1..Len(ops) : ops[j].op # "scan"
         /\ \A f \in FileIds :
              files[f] = IF f < ops[i].file THEN fix_func(f, disk0[f]) ELSE disk0[f]

\* The write of layout.css failed after views.css had been rewritten.
C8_Witness ==
  /\ pc = "crashed"
  /\ ops[Len(ops)] = Op("w", 2, FALSE)
  /\ files[1] # disk0[1]
====
